---- MODULE Spec2Model ----
(***************************************************************************)
(* Model of the Lab4 streaming pipeline: the camera server (producer,      *)
(* camera_server.py) that sends one JSON record per line over TCP, and the *)
(* processing server (consumer, processing_server.py) that reassembles the *)
(* lines, batches the decoded frames and processes each batch.             *)
(*                                                                         *)
(* A byte of the stream is a one-character string.  A frame record is      *)
(*   [frame_id, timestamp, width, height, data]                            *)
(* and its wire form is the character sequence                             *)
(*   { <frame_id> , <timestamp> , <width> , <height> , <data> } \n         *)
(* with the numbers in decimal: the five positions stand for the five keys *)
(* of the JSON object that json.dumps writes.                              *)
(***************************************************************************)
EXTENDS Integers, Sequences, FiniteSets, TLC

(***************************************************************************)
(* Bounds of the model                                                     *)
(***************************************************************************)
MaxFrames == 25
\* frames the camera delivers at most in one run (the loop is unbounded)

CapFrames == 3
\* the max_frames cap of the runs that are given one

WireCap == 36
\* bytes the connection holds in flight before sendall blocks

MaxPartial == 2
\* bytes of a record that reach the wire at most when its sendall fails

MaxPeerLines == 3
\* lines a foreign peer writes at most

MaxCodecNum == 11
\* largest frame_id and timestamp of the records given to the codec

MaxDataLen == 2
\* longest data text of the records given to the codec

(***************************************************************************)
(* Program constants                                                       *)
(***************************************************************************)
batch_size == 10
max_retries == 5
retry_delay == 2
BUFFER_SIZE == 65536
CAMERA_WIDTH == 320
CAMERA_HEIGHT == 240
OUTPUT_DIR == "output_frames"

NoCap == 0
\* max_frames=None

(***************************************************************************)
(* Characters                                                              *)
(***************************************************************************)
NL == "\n"
DigitChars == <<"0", "1", "2", "3", "4", "5", "6", "7", "8", "9">>
IsDigit(c) == \E i \in 1..10 : DigitChars[i] = c
DigitVal(c) == (CHOOSE i \in 1..10 : DigitChars[i] = c) - 1

\* base64 texts, one character each: "g" is the base64 of a JPEG image,
\* "n" the base64 of bytes that are no image, "p" a text b64decode rejects
GoodData == <<"g">>
DataChars == {"g", "n", "p"}

Min(a, b) == IF a < b THEN a ELSE b

RECURSIVE Concat(_)
Concat(ss) == IF ss = <<>> THEN <<>> ELSE Head(ss) \o Concat(Tail(ss))

IsPrefix(s, t) == Len(s) <= Len(t) /\ SubSeq(t, 1, Len(s)) = s

(***************************************************************************)
(* json.dumps of the payload dictionary (camera_server.py:79)              *)
(***************************************************************************)
RECURSIVE ToDigits(_)
ToDigits(n) ==
    IF n < 10 THEN <<DigitChars[n + 1]>>
    ELSE ToDigits(n \div 10) \o <<DigitChars[(n % 10) + 1]>>

\* mutant: the values of width and height change places
JsonDumpsSwapped(p) ==
    <<"{">> \o ToDigits(p.frame_id) \o <<",">> \o ToDigits(p.timestamp) \o <<",">>
    \o ToDigits(p.height) \o <<",">> \o ToDigits(p.width) \o <<",">>
    \o p.data \o <<"}">>

JsonDumps(p) ==
    <<"{">> \o ToDigits(p.frame_id) \o <<",">> \o ToDigits(p.timestamp) \o <<",">>
    \o ToDigits(p.width) \o <<",">> \o ToDigits(p.height) \o <<",">>
    \o p.data \o <<"}">>

\* json_payload = json.dumps(payload) + "\n"
WireRecord(p) == JsonDumps(p) \o <<NL>>

(***************************************************************************)
(* str.split('\n', 1), str.strip and json.loads (processing_server.py)     *)
(***************************************************************************)
HasNewline(s) == \E i \in 1..Len(s) : s[i] = NL
FirstNewline(s) == CHOOSE i \in 1..Len(s) : s[i] = NL /\ \A j \in 1..(i - 1) : s[j] # NL

\* line, buffer = buffer.split('\n', 1)
SplitLine(s) ==
    LET i == FirstNewline(s)
    IN  [line |-> SubSeq(s, 1, i - 1), rest |-> SubSeq(s, i + 1, Len(s))]

RECURSIVE LStrip(_)
LStrip(s) == IF s # <<>> /\ Head(s) = " " THEN LStrip(Tail(s)) ELSE s
RECURSIVE RStrip(_)
RStrip(s) == IF s # <<>> /\ s[Len(s)] = " " THEN RStrip(SubSeq(s, 1, Len(s) - 1)) ELSE s
Strip(s) == RStrip(LStrip(s))

RECURSIVE SplitComma(_)
SplitComma(s) ==
    IF \E i \in 1..Len(s) : s[i] = ","
    THEN LET i == CHOOSE k \in 1..Len(s) : s[k] = "," /\ \A j \in 1..(k - 1) : s[j] # ","
         IN  <<SubSeq(s, 1, i - 1)>> \o SplitComma(SubSeq(s, i + 1, Len(s)))
    ELSE <<s>>

\* a JSON number without sign, fraction or leading zero
IsNumber(s) ==
    /\ s # <<>>
    /\ \A i \in 1..Len(s) : IsDigit(s[i])
    /\ (Len(s) > 1 => s[1] # "0")

RECURSIVE ParseNat(_)
ParseNat(s) ==
    IF Len(s) = 1 THEN DigitVal(s[1])
    ELSE 10 * ParseNat(SubSeq(s, 1, Len(s) - 1)) + DigitVal(s[Len(s)])

IsDataText(s) == s # <<>> /\ \A i \in 1..Len(s) : s[i] \in DataChars

\* the JSON object {}: it holds none of the keys; a missing number reads as
\* frame_data.get("frame_id", -1) reports it, a missing text as NoData
NoId == -1
NoData == <<"None">>
NoPath == <<>>
EmptyObject == [frame_id |-> NoId, timestamp |-> NoId, width |-> NoId,
                height |-> NoId, data |-> NoData]

\* json.loads(line): an object, another JSON value, or JSONDecodeError
JsonLoads(line) ==
    LET t == Strip(line)
    IN  IF IsNumber(t) THEN [kind |-> "scalar", value |-> ParseNat(t)]
        ELSE IF t = <<"{", "}">> THEN [kind |-> "object", value |-> EmptyObject]
        ELSE IF Len(t) >= 2 /\ t[1] = "{" /\ t[Len(t)] = "}"
        THEN LET f == SplitComma(SubSeq(t, 2, Len(t) - 1))
             IN  IF /\ Len(f) = 5
                    /\ \A i \in 1..4 : IsNumber(f[i])
                    /\ IsDataText(f[5])
                 THEN [kind |-> "object",
                       value |-> [frame_id |-> ParseNat(f[1]),
                                  timestamp |-> ParseNat(f[2]),
                                  width |-> ParseNat(f[3]),
                                  height |-> ParseNat(f[4]),
                                  data |-> f[5]]]
                 ELSE [kind |-> "error", value |-> 0]
        ELSE [kind |-> "error", value |-> 0]


\* the byte no UTF-8 text holds
BadByte == "FF"

\* data.decode('utf-8'): UnicodeDecodeError on a byte that is no UTF-8
Utf8Decode(chunk) ==
    [ok |-> \A i \in 1..Len(chunk) : chunk[i] # BadByte, text |-> chunk]

(***************************************************************************)
(* State                                                                   *)
(***************************************************************************)
VARIABLES
    \* camera server (producer)
    cam_pc,           \* "main", "connect", "stream", "done", "crashed"
    camera,           \* self.camera: "none", "open", "unopened", "released"
    socket,           \* self.socket: "none", "created", "connected", "closed"
    retry_count,      \* connect_to_server's retry_count
    attempts,         \* outcome of every socket.connect call, in order
    slept,            \* seconds spent in time.sleep by connect_to_server
    connect_result,   \* "pending", "true", "false", "raised"
    frame_id,         \* start_streaming's frame_id
    frames_sent,      \* start_streaming's frames_sent
    max_frames,       \* the max_frames argument, NoCap for None
    clock,            \* time.time()
    sent,             \* every send_frame call: [frame_id, ok]
    cleanups,         \* calls of CameraServer.cleanup
    cam_exit,         \* how start_streaming ended
    \* connection
    wire,             \* bytes written by the peer and not yet received
    peer,             \* remote end of the connection: "none", "open", "closed"
    written,          \* frame records whose whole line reached the wire
    peer_lines,       \* lines a foreign peer has written
    \* processing server (consumer)
    srv_pc,           \* "start", "accept", "recv", "lines", "dispatch", "final", "done"
    server_socket,    \* self.server_socket: "none", "open", "listening", "closed"
    connection,       \* the accepted socket: "none", "open", "closed"
    sc,               \* the SparkContext: "none", "running", "stopped"
    buffer,           \* receive_and_process_frames' buffer
    frame_buffer,     \* receive_and_process_frames' frame_buffer
    frames_processed, \* receive_and_process_frames' frames_processed
    srv_exit,         \* how run ended: "running", "eos", "interrupt", "killed", or
                      \* the exception that run's `except Exception` caught
    decoded,          \* every object json.loads returned, in order
    dispatched,       \* every batch given to _process_batch_with_spark, in order
    outcomes,         \* the result list of every batch that returned
    files             \* paths of the files on disk under the output directory

camVars == <<cam_pc, camera, socket, retry_count, attempts, slept, connect_result,
             frame_id, frames_sent, max_frames, clock, sent, cleanups, cam_exit>>
netVars == <<wire, peer, written, peer_lines>>
srvVars == <<srv_pc, server_socket, connection, sc, buffer, frame_buffer,
             frames_processed, srv_exit, decoded, dispatched, outcomes, files>>
vars == <<camVars, netVars, srvVars>>

Init ==
    /\ cam_pc = "main" /\ camera = "none" /\ socket = "none"
    /\ retry_count = 0 /\ attempts = <<>> /\ slept = 0 /\ connect_result = "pending"
    /\ frame_id = 0 /\ frames_sent = 0 /\ max_frames \in {NoCap, CapFrames}
    /\ clock = 0 /\ sent = <<>> /\ cleanups = 0 /\ cam_exit = "running"
    /\ wire = <<>> /\ peer = "none" /\ written = <<>> /\ peer_lines = 0
    /\ srv_pc = "start" /\ server_socket = "none" /\ connection = "none"
    /\ sc = "none" /\ buffer = <<>> /\ frame_buffer = <<>> /\ frames_processed = 0
    /\ srv_exit = "running" /\ decoded = <<>> /\ dispatched = <<>>
    /\ outcomes = <<>> /\ files = {}

(***************************************************************************)
(* Camera server (camera_server.py)                                        *)
(***************************************************************************)
\* CameraServer.cleanup: release the camera and close the socket
CameraReleased(c) == IF c = "none" THEN c ELSE "released"

\* mutant: cleanup leaves the socket as it is
SocketLeftOpen(s) == s

SocketClosed(s) == IF s = "none" THEN s ELSE "closed"

Cleanup ==
    /\ camera' = CameraReleased(camera)
    /\ socket' = SocketClosed(socket)
    /\ peer' = IF socket = "connected" THEN "closed" ELSE peer
    /\ cleanups' = cleanups + 1

\* initialize_camera, then the first line of connect_to_server
InitializeCamera ==
    /\ cam_pc = "main"
    /\ \E opened \in BOOLEAN :
         IF opened
         THEN /\ camera' = "open"
              /\ socket' = "created"
              /\ cam_pc' = "connect"
         ELSE \* raise Exception("Cannot open camera"), which main does not catch
              /\ camera' = "unopened"
              /\ socket' = socket
              /\ cam_pc' = "crashed"
    /\ UNCHANGED <<retry_count, attempts, slept, connect_result, frame_id, frames_sent,
                   max_frames, clock, sent, cleanups, cam_exit, netVars, srvVars>>

\* mutant: while retry_count <= max_retries
RetryAllowedInclusive(rc) == rc <= max_retries

\* while retry_count < max_retries
RetryAllowed(rc) == rc < max_retries

\* one pass of the retry loop of connect_to_server
ConnectAttempt ==
    /\ cam_pc = "connect"
    /\ RetryAllowed(retry_count)
    /\ \E r \in {"accepted", "refused", "other"} :
         /\ r = "accepted" => server_socket = "listening"
         /\ r = "refused" => server_socket # "listening"
         /\ attempts' = Append(attempts, r)
         /\ CASE r = "accepted" ->
                   /\ socket' = "connected"
                   /\ peer' = "open"
                   /\ connect_result' = "true"
                   /\ cam_pc' = "stream"
                   /\ UNCHANGED <<retry_count, slept>>
              [] r = "refused" ->
                   /\ retry_count' = retry_count + 1
                   /\ slept' = slept + retry_delay
                   /\ UNCHANGED <<socket, peer, connect_result, cam_pc>>
              [] r = "other" ->
                   \* an exception that is no ConnectionRefusedError leaves
                   \* connect_to_server and main
                   /\ connect_result' = "raised"
                   /\ cam_pc' = "crashed"
                   /\ UNCHANGED <<socket, peer, retry_count, slept>>
    /\ UNCHANGED <<camera, frame_id, frames_sent, max_frames, clock, sent, cleanups,
                   cam_exit, wire, written, peer_lines, srvVars>>

\* mutant: main goes on to start_streaming whatever connect_to_server returned
AfterConnectFailureStream ==
    /\ cam_pc' = "stream"
    /\ UNCHANGED <<camera, socket, peer, cleanups>>

\* main: if not connect_to_server(): cleanup and return
AfterConnectFailure ==
    /\ Cleanup
    /\ cam_pc' = "done"

\* the loop ends, connect_to_server returns False and main cleans up
ConnectGiveUp ==
    /\ cam_pc = "connect"
    /\ ~RetryAllowed(retry_count)
    /\ connect_result' = "false"
    /\ AfterConnectFailure
    /\ UNCHANGED <<retry_count, attempts, slept, frame_id, frames_sent, max_frames,
                   clock, sent, cam_exit, wire, written, peer_lines, srvVars>>

\* encode_frame: the base64 text of the JPEG of a captured frame
EncodeFrame == GoodData

\* the payload dictionary of send_frame
Payload(id, now) ==
    [frame_id |-> id, timestamp |-> now, width |-> CAMERA_WIDTH,
     height |-> CAMERA_HEIGHT, data |-> EncodeFrame]

\* mutant: frames_sent is not advanced
NextFramesSentSame(n) == n

\* frames_sent += 1
NextFramesSent(n) == n + 1

\* mutant: the id advances by two
NextFrameIdSkip(id) == id + 2

\* frame_id += 1
NextFrameId(id) == id + 1

\* mutant: if max_frames and frames_sent > max_frames
CapReachedLate(n) == max_frames # NoCap /\ n > max_frames

\* if max_frames and frames_sent >= max_frames
CapReached(n) == max_frames # NoCap /\ n >= max_frames

\* the exit of start_streaming: the finally clause runs cleanup
StopStreaming(how) ==
    /\ Cleanup
    /\ cam_exit' = how
    /\ cam_pc' = IF how = "exception" THEN "crashed" ELSE "done"

\* camera.read() fails: break
CaptureFail ==
    /\ cam_pc = "stream"
    /\ StopStreaming("capture")
    /\ UNCHANGED <<retry_count, attempts, slept, connect_result, frame_id, frames_sent,
                   max_frames, clock, sent, wire, written, peer_lines, srvVars>>

\* one iteration whose send_frame returns True
SendFrameOk ==
    /\ cam_pc = "stream"
    /\ frame_id < MaxFrames
    /\ LET p == Payload(frame_id, clock)
       IN  /\ Len(wire) + Len(WireRecord(p)) <= WireCap
           /\ wire' = wire \o WireRecord(p)
           /\ written' = Append(written, p)
           /\ sent' = Append(sent, [frame_id |-> frame_id, ok |-> TRUE])
    /\ frames_sent' = NextFramesSent(frames_sent)
    /\ frame_id' = NextFrameId(frame_id)
    /\ clock' = clock + 1
    /\ IF CapReached(frames_sent')
       THEN StopStreaming("max_frames")
       ELSE \E quit \in BOOLEAN :
              IF quit THEN StopStreaming("quit")
              ELSE UNCHANGED <<cam_pc, camera, socket, peer, cleanups, cam_exit>>
    /\ UNCHANGED <<retry_count, attempts, slept, connect_result, max_frames,
                   peer_lines, srvVars>>

\* mutant: the loop goes on after a failed send
AfterSendFailureContinue == UNCHANGED <<cam_pc, camera, socket, peer, cleanups, cam_exit>>

\* the loop's reaction to send_frame returning False
AfterSendFailure == StopStreaming("send")

\* one iteration whose send_frame returns False: sendall raised after some
\* bytes of the record, or none, were written
SendFrameFail ==
    /\ cam_pc = "stream"
    /\ frame_id < MaxFrames
    /\ LET p == Payload(frame_id, clock)
       IN  \E k \in 0..Min(MaxPartial, Len(WireRecord(p)) - 1) :
              wire' = wire \o SubSeq(WireRecord(p), 1, k)
    /\ sent' = Append(sent, [frame_id |-> frame_id, ok |-> FALSE])
    /\ clock' = clock + 1
    /\ AfterSendFailure
    /\ UNCHANGED <<retry_count, attempts, slept, connect_result, frame_id, frames_sent,
                   max_frames, written, peer_lines, srvVars>>

\* KeyboardInterrupt in the loop: caught, then cleanup
CamInterrupt ==
    /\ cam_pc = "stream"
    /\ StopStreaming("interrupt")
    /\ UNCHANGED <<retry_count, attempts, slept, connect_result, frame_id, frames_sent,
                   max_frames, clock, sent, wire, written, peer_lines, srvVars>>

\* another exception in the loop (cv2.imshow, camera.read): cleanup runs in
\* the finally clause and the exception leaves start_streaming
CamError ==
    /\ cam_pc = "stream"
    /\ StopStreaming("exception")
    /\ UNCHANGED <<retry_count, attempts, slept, connect_result, frame_id, frames_sent,
                   max_frames, clock, sent, wire, written, peer_lines, srvVars>>

CameraNext ==
    \/ InitializeCamera
    \/ ConnectAttempt
    \/ ConnectGiveUp
    \/ CaptureFail
    \/ SendFrameOk
    \/ SendFrameFail
    \/ CamInterrupt
    \/ CamError

(***************************************************************************)
(* Processing server (processing_server.py)                                *)
(***************************************************************************)
\* ProcessingServer.cleanup
ServerSocketClosed(s) == IF s = "none" THEN s ELSE "closed"

\* run's finally clause
RunCleanup(how) ==
    /\ server_socket' = ServerSocketClosed(server_socket)
    /\ srv_exit' = how
    /\ srv_pc' = "done"

\* the finally clause of receive_and_process_frames, then run's
LeaveReceive(how) ==
    /\ sc' = "stopped"
    /\ RunCleanup(how)

\* start_tcp_server: bind and listen; a failing bind raises into run
StartTcpServer ==
    /\ srv_pc = "start"
    /\ \E bound \in BOOLEAN :
         IF bound
         THEN /\ server_socket' = "listening"
              /\ srv_pc' = "accept"
              /\ srv_exit' = srv_exit
         ELSE /\ server_socket' = "closed"
              /\ srv_pc' = "done"
              /\ srv_exit' = "BindError"
    /\ UNCHANGED <<connection, sc, buffer, frame_buffer, frames_processed, decoded,
                   dispatched, outcomes, files, camVars, netVars>>

\* accept returns the connection; the SparkContext is created or fails
Accept ==
    /\ srv_pc = "accept"
    /\ peer # "none"
    /\ connection' = "open"
    /\ \E started \in BOOLEAN :
         IF started
         THEN /\ sc' = "running"
              /\ srv_pc' = "recv"
              /\ UNCHANGED <<server_socket, srv_exit>>
         ELSE /\ sc' = sc
              /\ RunCleanup("SparkError")
    /\ UNCHANGED <<buffer, frame_buffer, frames_processed, decoded, dispatched,
                   outcomes, files, camVars, netVars>>

\* mutant: buffer = data.decode('utf-8'), the bytes kept from before are lost
AccumulateReplace(buf, text) == text

\* buffer += data.decode('utf-8')
Accumulate(buf, text) == buf \o text

\* where the inner loop stands once `rest` is the buffer
AfterLine(rest) == IF HasNewline(rest) THEN "lines" ELSE "recv"

\* recv returns data: buffer += data.decode('utf-8')
RecvData ==
    /\ srv_pc = "recv"
    /\ wire # <<>>
    /\ \E n \in 1..Min(Len(wire), BUFFER_SIZE) :
         LET d == Utf8Decode(SubSeq(wire, 1, n))
         IN  /\ wire' = SubSeq(wire, n + 1, Len(wire))
             /\ IF d.ok
                THEN /\ buffer' = Accumulate(buffer, d.text)
                     /\ srv_pc' = AfterLine(buffer')
                     /\ UNCHANGED <<server_socket, sc, srv_exit>>
                ELSE \* UnicodeDecodeError leaves the loop
                     /\ buffer' = buffer
                     /\ LeaveReceive("UnicodeDecodeError")
    /\ UNCHANGED <<connection, frame_buffer, frames_processed, decoded, dispatched,
                   outcomes, files, camVars, peer, written, peer_lines>>

\* mutant: the remaining frames are not processed
FlushNever(fb) == FALSE

\* if frame_buffer: (the remaining frames after the loop)
FlushNeeded(fb) == fb # <<>>

\* recv returns no data: break, then `if frame_buffer:`
RecvEof ==
    /\ srv_pc = "recv"
    /\ wire = <<>>
    /\ peer = "closed"
    /\ IF FlushNeeded(frame_buffer)
       THEN /\ srv_pc' = "final"
            /\ UNCHANGED <<server_socket, sc, srv_exit>>
       ELSE LeaveReceive("eos")
    /\ UNCHANGED <<connection, buffer, frame_buffer, frames_processed, decoded,
                   dispatched, outcomes, files, camVars, netVars>>

\* recv raises (connection reset)
RecvFail ==
    /\ srv_pc = "recv"
    /\ LeaveReceive("RecvError")
    /\ UNCHANGED <<connection, buffer, frame_buffer, frames_processed, decoded,
                   dispatched, outcomes, files, camVars, netVars>>

\* frame_data["output_dir"] = self.output_dir
Annotate(v) ==
    [frame_id |-> v.frame_id, timestamp |-> v.timestamp, width |-> v.width,
     height |-> v.height, data |-> v.data, output_dir |-> OUTPUT_DIR]

\* mutant: if len(frame_buffer) > batch_size
BatchFullLate(n) == n > batch_size

\* if len(frame_buffer) >= batch_size
BatchFull(n) == n >= batch_size

\* one pass of `while '\n' in buffer`
ProcessLine ==
    /\ srv_pc = "lines"
    /\ LET sp == SplitLine(buffer)
           j == JsonLoads(sp.line)
       IN  /\ buffer' = sp.rest
           /\ IF Strip(sp.line) = <<>> \/ j.kind = "error"
              THEN \* blank line, or JSONDecodeError caught and printed
                   /\ srv_pc' = AfterLine(sp.rest)
                   /\ UNCHANGED <<frame_buffer, decoded, server_socket, sc, srv_exit>>
              ELSE IF j.kind = "scalar"
              THEN \* the item assignment raises TypeError, which leaves the loop
                   /\ LeaveReceive("TypeError")
                   /\ UNCHANGED <<frame_buffer, decoded>>
              ELSE /\ frame_buffer' = Append(frame_buffer, Annotate(j.value))
                   /\ decoded' = Append(decoded, j.value)
                   /\ srv_pc' = IF BatchFull(Len(frame_buffer')) THEN "dispatch"
                                ELSE AfterLine(sp.rest)
                   /\ UNCHANGED <<server_socket, sc, srv_exit>>
    /\ UNCHANGED <<connection, frames_processed, dispatched, outcomes, files,
                   camVars, netVars>>

\* os.path.join(self.output_dir, f"frame_{frame_id:06d}.jpg")
OutputPath(id) == <<OUTPUT_DIR, id>>

\* the body of the for loop of _process_batch_with_spark for one frame
ProcessFrame(fd) ==
    IF fd.data = NoData \/ (\E i \in 1..Len(fd.data) : fd.data[i] = "p")
    THEN \* b64decode raises: except Exception
         [frame_id |-> fd.frame_id, status |-> "error", output_path |-> NoPath]
    ELSE IF \E i \in 1..Len(fd.data) : fd.data[i] = "n"
    THEN \* imdecode returns None
         [frame_id |-> fd.frame_id, status |-> "error", output_path |-> NoPath]
    ELSE [frame_id |-> fd.frame_id, status |-> "success",
          output_path |-> OutputPath(fd.frame_id)]

\* mutant: the first failing frame ends the loop (break for continue)
RECURSIVE BatchResultsAbort(_)
BatchResultsAbort(batch) ==
    IF batch = <<>> THEN <<>>
    ELSE IF ProcessFrame(Head(batch)).status = "error"
    THEN <<ProcessFrame(Head(batch))>>
    ELSE <<ProcessFrame(Head(batch))>> \o BatchResultsAbort(Tail(batch))

\* the for loop: one result per frame, a failing frame does not end the loop
RECURSIVE BatchResults(_)
BatchResults(batch) ==
    IF batch = <<>> THEN <<>>
    ELSE <<ProcessFrame(Head(batch))>> \o BatchResults(Tail(batch))

\* cv2.imwrite for the frames that reached it
FilesWritten(batch) ==
    {OutputPath(batch[i].frame_id) :
       i \in {k \in 1..Len(batch) : ProcessFrame(batch[k]).status = "success"}}

\* mutant: the buffer is not replaced after a batch of the loop
AfterDispatchKeep(fb, pc) == fb

\* frame_buffer = [] after a batch of the loop; the final batch is kept
AfterDispatch(fb, pc) == IF pc = "dispatch" THEN <<>> ELSE fb

\* mutant: frames_processed += batch_size
ProcessedFull(n, batch) == n + batch_size

\* frames_processed += len(frame_buffer)
Processed(n, batch) == n + Len(batch)

\* _process_batch_with_spark returns, then the lines after the call
ProcessBatch ==
    /\ srv_pc \in {"dispatch", "final"}
    /\ dispatched' = Append(dispatched, frame_buffer)
    /\ outcomes' = Append(outcomes, BatchResults(frame_buffer))
    /\ files' = files \cup FilesWritten(frame_buffer)
    /\ frames_processed' = Processed(frames_processed, frame_buffer)
    /\ frame_buffer' = AfterDispatch(frame_buffer, srv_pc)
    /\ IF srv_pc = "dispatch"
       THEN /\ srv_pc' = AfterLine(buffer)
            /\ UNCHANGED <<server_socket, sc, srv_exit>>
       ELSE LeaveReceive("eos")
    /\ UNCHANGED <<connection, buffer, decoded, camVars, netVars>>

\* _process_batch_with_spark raises (parallelize, collect or the import):
\* only KeyboardInterrupt is caught around the call
ProcessBatchRaise ==
    /\ srv_pc \in {"dispatch", "final"}
    /\ dispatched' = Append(dispatched, frame_buffer)
    /\ LeaveReceive("ProcessingError")
    /\ UNCHANGED <<connection, buffer, frame_buffer, frames_processed, decoded,
                   outcomes, files, camVars, netVars>>

\* KeyboardInterrupt: caught inside receive_and_process_frames; in accept it
\* passes run's `except Exception` and leaves run after the finally clause
SrvInterrupt ==
    /\ srv_pc \in {"accept", "recv", "lines", "dispatch", "final"}
    /\ IF srv_pc = "accept"
       THEN /\ RunCleanup("killed")
            /\ sc' = sc
       ELSE LeaveReceive("interrupt")
    /\ UNCHANGED <<connection, buffer, frame_buffer, frames_processed, decoded,
                   dispatched, outcomes, files, camVars, netVars>>

ServerNext ==
    \/ StartTcpServer
    \/ Accept
    \/ RecvData
    \/ RecvEof
    \/ RecvFail
    \/ ProcessLine
    \/ ProcessBatch
    \/ ProcessBatchRaise
    \/ SrvInterrupt

\* the exit status of the process of processing_server.main: run swallows
\* every Exception and returns, so the interpreter exits with 0; only an
\* exception that leaves run (KeyboardInterrupt in accept) ends it with 1
ExitStatus == IF srv_exit = "killed" THEN 1 ELSE 0

(***************************************************************************)
(* The two servers connected                                               *)
(***************************************************************************)
Next == CameraNext \/ ServerNext

Spec == Init /\ [][Next]_vars

(***************************************************************************)
(* The processing server connected to a peer that is no camera server: it  *)
(* writes any lines, frame records or not                                  *)
(***************************************************************************)
\* a frame record as another producer may write it: any data text
PeerFrame(id, c) == [Payload(id, id) EXCEPT !.data = <<c>>]

\* lines that are no frame record: no JSON, a JSON number, a blank line,
\* the JSON object {}, a byte that is no UTF-8
ForeignLines == {<<"x", NL>>, <<"5", NL>>, <<" ", NL>>, <<"{", "}", NL>>, <<BadByte, NL>>}

PeerConnect ==
    /\ peer = "none"
    /\ server_socket = "listening"
    /\ peer' = "open"
    /\ UNCHANGED <<wire, written, peer_lines, camVars, srvVars>>

PeerWriteFrame ==
    /\ peer = "open"
    /\ peer_lines < MaxPeerLines
    /\ \E c \in DataChars :
         LET p == PeerFrame(Len(written), c)
         IN  /\ wire' = wire \o WireRecord(p)
             /\ written' = Append(written, p)
    /\ peer_lines' = peer_lines + 1
    /\ UNCHANGED <<peer, camVars, srvVars>>

PeerWriteOther ==
    /\ peer = "open"
    /\ peer_lines < MaxPeerLines
    /\ \E l \in ForeignLines : wire' = wire \o l
    /\ peer_lines' = peer_lines + 1
    /\ UNCHANGED <<peer, written, camVars, srvVars>>

PeerClose ==
    /\ peer = "open"
    /\ peer' = "closed"
    /\ UNCHANGED <<wire, written, peer_lines, camVars, srvVars>>

PeerNext == PeerConnect \/ PeerWriteFrame \/ PeerWriteOther \/ PeerClose

NextPeer == PeerNext \/ ServerNext

\* the camera server does not run: its start_streaming has no argument
InitPeer == Init /\ max_frames = NoCap

SpecPeer == InitPeer /\ [][NextPeer]_vars

(***************************************************************************)
(* The codec alone: one frame record, any of a bounded set, is written as  *)
(* send_frame writes it and read by the receive loop                       *)
(***************************************************************************)
DataTexts == UNION {[1..n -> DataChars] : n \in 1..MaxDataLen}

CodecFrames ==
    [frame_id : 0..MaxCodecNum, timestamp : 0..MaxCodecNum, width : {CAMERA_WIDTH},
     height : {CAMERA_HEIGHT}, data : DataTexts]

\* both servers connected, no frame sent yet
InitCodec ==
    /\ cam_pc = "stream" /\ camera = "open" /\ socket = "connected"
    /\ retry_count = 0 /\ attempts = <<"accepted">> /\ slept = 0
    /\ connect_result = "true"
    /\ frame_id = 0 /\ frames_sent = 0 /\ max_frames = NoCap
    /\ clock = 0 /\ sent = <<>> /\ cleanups = 0 /\ cam_exit = "running"
    /\ wire = <<>> /\ peer = "open" /\ written = <<>> /\ peer_lines = 0
    /\ srv_pc = "recv" /\ server_socket = "listening" /\ connection = "open"
    /\ sc = "running" /\ buffer = <<>> /\ frame_buffer = <<>> /\ frames_processed = 0
    /\ srv_exit = "running" /\ decoded = <<>> /\ dispatched = <<>>
    /\ outcomes = <<>> /\ files = {}

\* the serialising lines of send_frame for a payload dictionary
SendRecord ==
    /\ written = <<>>
    /\ \E p \in CodecFrames :
         /\ wire' = wire \o WireRecord(p)
         /\ written' = <<p>>
    /\ UNCHANGED <<peer, peer_lines, camVars, srvVars>>

NextCodec == SendRecord \/ RecvData \/ ProcessLine

SpecCodec == InitCodec /\ [][NextCodec]_vars

(***************************************************************************)
(* Properties                                                              *)
(***************************************************************************)
AnnotateAll(recs) == [i \in 1..Len(recs) |-> Annotate(recs[i])]
CeilDiv(t, b) == (t + b - 1) \div b
Last(q) == q[Len(q)]
Sizes(batches) == [i \in 1..Len(batches) |-> Len(batches[i])]

\* the receive loop has taken every byte written so far and handled every
\* complete line of it
Drained == srv_pc = "recv" /\ wire = <<>>

\* C1: whatever the chunks recv returns, the records the receive loop decodes
\* are the records the producer wrote, equal and in order: never more, and
\* exactly all of them once every byte has been received.
ChunkedDecodeExact ==
    /\ IsPrefix(decoded, written)
    /\ Drained => decoded = written

\* C1 witness: records have been decoded and the last chunk ended inside a
\* record, whose first bytes wait in the buffer for the rest on the wire
ChunkSplitsRecord ==
    /\ srv_pc = "recv"
    /\ Len(decoded) >= 2
    /\ buffer # <<>>
    /\ wire # <<>>
    /\ Len(written) > Len(decoded)

\* C2: after an orderly end of a stream of T frames, ceil(T / batch_size)
\* batches were dispatched and their concatenation is the frame sequence; for
\* T = 25 the batches have sizes 10, 10, 5 and 25 outcome records exist.
BatchesCoverStream ==
    srv_exit = "eos" =>
        /\ Len(dispatched) = CeilDiv(Len(written), batch_size)
        /\ Concat(dispatched) = AnnotateAll(written)
        /\ Len(written) = 25 =>
              /\ Sizes(dispatched) = <<10, 10, 5>>
              /\ Len(Concat(outcomes)) = 25

\* C2 witness: an orderly end after 25 frames
Stream25Ended == srv_exit = "eos" /\ Len(written) = 25

\* C3: when the stream ends with a partial record in the buffer, the run
\* ends as an end of stream; the partial record is no frame; the k complete
\* frames since the last full batch are the one final batch, and there is no
\* final batch when k = 0; 7 complete frames give one batch of size 7.
PartialRecordDiscarded ==
    (srv_exit = "eos" /\ buffer # <<>>) =>
        LET T == Len(written)
            k == T % batch_size
        IN  /\ decoded = written
            /\ frames_processed = T
            /\ Len(dispatched) = (T \div batch_size) + (IF k > 0 THEN 1 ELSE 0)
            /\ k > 0 => Last(dispatched) = AnnotateAll(SubSeq(written, T - k + 1, T))
            /\ T = 7 => Sizes(dispatched) = <<7>>

\* C3 witness: end of stream after 7 complete frames and a partial 8th
PartialEighth == srv_exit = "eos" /\ buffer # <<>> /\ Len(decoded) = 7

\* a frame whose payload does not decode to an image
FailsToDecode(fd) == fd.data # GoodData
CountFailing(batch) == Cardinality({i \in 1..Len(batch) : FailsToDecode(batch[i])})
CountStatus(res, st) == Cardinality({i \in 1..Len(res) : res[i].status = st})

SentIdsConsecutive == \A i \in 1..Len(sent) : sent[i].frame_id = i - 1

\* C5 witness: a send failed after others succeeded
FailedSendAfterOthers == Len(sent) >= 3 /\ ~Last(sent).ok

\* C6: connect_to_server makes max_retries attempts and sleeps after each
\* when all are refused, then returns False; it returns True on the first
\* accepted attempt; another failure ends it at once.
ConnectRetryContract ==
    /\ \A i \in 1..(Len(attempts) - 1) : attempts[i] = "refused"
    /\ slept = retry_delay * Cardinality({i \in 1..Len(attempts) : attempts[i] = "refused"})
    /\ connect_result = "false" =>
          /\ Len(attempts) = max_retries
          /\ Last(attempts) = "refused"
    /\ connect_result = "true" => Last(attempts) = "accepted"
    /\ connect_result = "raised" => Last(attempts) = "other"
    /\ (attempts # <<>> /\ Last(attempts) = "accepted") => connect_result = "true"
    /\ (attempts # <<>> /\ Last(attempts) = "other") => connect_result = "raised"

\* C6 witness: every attempt was refused and the connect failed
AllAttemptsRefused == connect_result = "false" /\ Len(attempts) = max_retries

\* C7: a failed send is the last send_frame call of the run, no frame is sent
\* twice, and the camera and the socket are released.
SendFailureStops ==
    /\ \A i \in 1..Len(sent) :
          ~sent[i].ok =>
              /\ i = Len(sent)
              /\ cam_pc = "done"
              /\ socket = "closed"
              /\ peer = "closed"
    /\ \A i, j \in 1..Len(sent) : i # j => sent[i].frame_id # sent[j].frame_id

\* C7 witness: the loop stopped on a failed send
StoppedOnSendFailure ==
    /\ Len(sent) >= 2
    /\ ~Last(sent).ok
    /\ cam_exit = "send"
    /\ socket = "closed"

\* C8: when run has returned, the listening socket and the accepted
\* connection are both released.
RunReleasesSockets ==
    srv_pc = "done" =>
        /\ server_socket \in {"none", "closed"}
        /\ connection \in {"none", "closed"}

\* C9: an exception of the processing stage for a batch is caught: the batch
\* gets its outcome records and the run does not end on it.
ProcessingExceptionContained ==
    /\ srv_exit # "ProcessingError"
    /\ srv_pc \notin {"dispatch", "final"} =>
          /\ Len(outcomes) = Len(dispatched)
          /\ \A b \in 1..Len(outcomes) : Len(outcomes[b]) = Len(dispatched[b])

\* C10: a malformed line is discarded and the stream continues: only the
\* frame records are batched, in order, no exception of a malformed line
\* leaves the receive loop, and once every byte is received every frame
\* record written has been decoded.
MalformedRecordSkipped ==
    /\ IsPrefix(decoded, written)
    /\ srv_exit \notin {"TypeError", "UnicodeDecodeError"}
    /\ Drained => decoded = written

\* C11: with a cap M and nothing else ending the loop, exactly M frames,
\* ids 0..M-1, are sent and the loop stops; the quit key stops it too; in
\* both cases cleanup has run and no frame is sent afterwards.
CapStopsProducer ==
    /\ [](/\ max_frames # NoCap => frames_sent <= max_frames
          /\ (max_frames # NoCap /\ frames_sent = max_frames) => cam_exit = "max_frames"
          /\ cam_exit = "max_frames" =>
                /\ Len(sent) = max_frames
                /\ \A i \in 1..Len(sent) : sent[i].ok /\ sent[i].frame_id = i - 1
          /\ cam_exit \in {"max_frames", "quit"} =>
                /\ cam_pc = "done"
                /\ cleanups = 1
                /\ camera = "released"
                /\ socket = "closed")
    /\ [][(cam_exit \in {"max_frames", "quit"}) => (sent' = sent)]_vars

\* C11 witness: the cap ended the loop
StoppedAtCap == cam_exit = "max_frames" /\ Len(sent) = CapFrames

\* C12: a failing bind is fatal: no connection is accepted, no frame is
\* processed, cleanup is attempted and the process ends with a status that
\* is not zero.
BindFailureFatal ==
    srv_exit = "BindError" =>
        /\ connection = "none"
        /\ frames_processed = 0
        /\ dispatched = <<>>
        /\ server_socket = "closed"
        /\ ExitStatus # 0

\* C13: a user interrupt at any point of the consumer run or of the producer
\* loop ends like an orderly end of stream: sockets and camera released,
\* processing stopped, and no exception left uncaught.
InterruptCleansUp ==
    /\ srv_exit \in {"interrupt", "killed"} =>
          /\ srv_pc = "done"
          /\ server_socket \in {"none", "closed"}
          /\ connection \in {"none", "closed"}
          /\ sc # "running"
          /\ srv_exit # "killed"
    /\ cam_exit = "interrupt" =>
          /\ cam_pc = "done"
          /\ camera = "released"
          /\ socket = "closed"

\* the line decoder of the receive loop applied to a wire record
DecodeLine(w) == JsonLoads(SplitLine(w).line)

ResultsOf(res, batch) ==
    /\ Len(res) = Len(batch)
    /\ \A i \in 1..Len(res) : res[i].frame_id = batch[i].frame_id

\* C16 as stated: a batch is handed over when it reaches batch_size, and at
\* that moment nothing of a later record has been taken from the connection.
NoReadAhead ==
    srv_pc = "dispatch" =>
        /\ Len(frame_buffer) = batch_size
        /\ buffer = <<>>

\* C16: a batch is handed to the processing stage at the moment it reaches
\* batch_size; batches are processed in dispatch order; until the processing
\* of a batch has returned no recv is made, no line is decoded and no frame
\* is appended to the buffer (bytes of later records may already wait in the
\* text buffer, received in the same chunk).
SequencePoint ==
    /\ [](/\ srv_pc = "dispatch" => Len(frame_buffer) = batch_size
          /\ Len(frame_buffer) >= batch_size => srv_pc \in {"dispatch", "done"}
          /\ Len(outcomes) <= Len(dispatched)
          /\ \A b \in 1..Len(outcomes) : ResultsOf(outcomes[b], dispatched[b]))
    /\ [][(srv_pc \in {"dispatch", "final"}) =>
             (/\ IsPrefix(wire, wire')
              /\ buffer' = buffer
              /\ decoded' = decoded
              /\ frame_buffer' \in {frame_buffer, <<>>})]_vars

\* C16 witness: a second batch is handed over while bytes of the record
\* after it are already in the text buffer
DispatchWithReadAhead ==
    /\ srv_pc = "dispatch"
    /\ Len(dispatched) >= 1
    /\ buffer # <<>>

\* C17: once an appended record is handled the buffer holds fewer than
\* batch_size frames; a dispatched batch has 1..batch_size frames and all but
\* the last have batch_size; after a dispatch of the loop the buffer is a new
\* empty one: the dispatched batches and the buffer together hold every
\* decoded frame once.
BufferBounded ==
    /\ srv_pc \in {"recv", "lines"} => Len(frame_buffer) < batch_size
    /\ Len(frame_buffer) <= batch_size
    /\ \A b \in 1..Len(dispatched) :
          /\ Len(dispatched[b]) >= 1
          /\ Len(dispatched[b]) <= batch_size
          /\ b < Len(dispatched) => Len(dispatched[b]) = batch_size
    /\ srv_pc \in {"recv", "lines", "dispatch", "final"} =>
          Concat(dispatched) \o frame_buffer = AnnotateAll(decoded)

\* C17 witness: two batches were dispatched and the new buffer fills again
BufferRefilling ==
    /\ srv_pc \in {"recv", "lines"}
    /\ Len(dispatched) >= 2
    /\ frame_buffer # <<>>

\* successful sends among the first n send_frame calls
OkSends(n) == Cardinality({i \in 1..n : sent[i].ok})

\* C18: frame_id and frames_sent are equal at the start of every iteration;
\* the id of a frame is the number of frames sent successfully before it;
\* the two counters change only together, by one, after a successful send.
CountersAgree ==
    /\ [](/\ frame_id = frames_sent
          /\ frames_sent = OkSends(Len(sent))
          /\ \A i \in 1..Len(sent) : sent[i].frame_id = OkSends(i - 1))
    /\ [][(frame_id' # frame_id \/ frames_sent' # frames_sent) =>
             (/\ frame_id' = frame_id + 1
              /\ frames_sent' = frames_sent + 1
              /\ Len(sent') = Len(sent) + 1
              /\ sent'[Len(sent')].ok)]_vars

\* C18 witness: an iteration starts after three successful sends
ThreeSentAndStreaming == cam_pc = "stream" /\ frames_sent >= 3

\* C19: frames_processed is the number of frames of the batches whose
\* processing has returned; it changes only with a dispatch, by the size of
\* that batch, whatever the outcomes; after an orderly end of stream it is
\* the number of complete records received.
FramesProcessedCount ==
    /\ [](/\ frames_processed = Len(Concat(SubSeq(dispatched, 1, Len(outcomes))))
          /\ frames_processed = Len(Concat(outcomes))
          /\ srv_exit = "eos" =>
                /\ frames_processed = Len(decoded)
                /\ frames_processed = Len(written))
    /\ [][(frames_processed' # frames_processed) =>
             (/\ dispatched' = Append(dispatched, frame_buffer)
              /\ frames_processed' = frames_processed + Len(frame_buffer))]_vars

\* C19 witness: an orderly end after full batches and a smaller final one
CountedToTheEnd ==
    /\ srv_exit = "eos"
    /\ Len(dispatched) >= 2
    /\ Len(Last(dispatched)) < batch_size
    /\ frames_processed > batch_size

ExitPaths == {"capture", "send", "max_frames", "quit", "interrupt", "exception"}

\* C20: however start_streaming ends, cleanup has run exactly once and the
\* camera and the socket are released; no frame is sent after cleanup.
StreamingAlwaysCleansUp ==
    /\ [](/\ cam_exit \in ExitPaths \cup {"running"}
          /\ cleanups <= 1
          /\ cam_exit # "running" =>
                /\ cleanups = 1
                /\ camera = "released"
                /\ socket = "closed"
                /\ cam_pc \in {"done", "crashed"})
    /\ [][(cleanups >= 1) => (sent' = sent /\ cleanups' = cleanups)]_vars

\* C20 witness: an exception that is no KeyboardInterrupt ended the loop
\* after a frame was sent
EndedByException == cam_exit = "exception" /\ sent # <<>> /\ cleanups = 1

====
